---------------------------- MODULE Spec2Model ----------------------------
(***************************************************************************)
(* Model of pipeline_simulator.asm, the MIPS 5-stage pipeline simulator.   *)
(*                                                                         *)
(* The .data words of the program are the state. Every subroutine of the   *)
(* program is an operator from machine record to machine record, written   *)
(* label by label from the assembly, and every call of simulation_loop is  *)
(* one action. Words are 32-bit two's complement values, as the MIPS       *)
(* registers hold them: an instruction word with opcode >= 32 is negative. *)
(***************************************************************************)
EXTENDS Integers, Sequences, FiniteSets, TLC

VARIABLES
    ctl,                  \* position in main / simulation_loop
    instruction_count,    \* .data instruction_count (input)
    instruction_buffer,   \* .data instruction_buffer (input), word i at index i+1
    enable_forwarding,    \* .data enable_forwarding (input)
    enable_branch_predict,\* .data enable_branch_predict (input)
    stage,                \* stage_IF .. stage_WB, six words each
    hazard,               \* hazard_info
    metrics,              \* pipeline_metrics
    cycle_history,        \* cycle_history[0 .. history_count-1]
    scoreboard,           \* register_scoreboard
    current_cycle,
    pc_current,
    simulation_done,
    pipeline_magic,
    a0                    \* register $a0, read by is_load_instruction

vars == <<ctl, instruction_count, instruction_buffer, enable_forwarding,
          enable_branch_predict, stage, hazard, metrics, cycle_history,
          scoreboard, current_cycle, pc_current, simulation_done,
          pipeline_magic, a0>>

-----------------------------------------------------------------------------
(* Bounds of the explored inputs.                                          *)

\* longest program of freely chosen words
MaxInstr == 3

\* longest program of freely chosen words in the termination check
MaxInstrFair == 2

\* length of the long single-word programs (drains one cycle after the cap)
LongCount == 496

-----------------------------------------------------------------------------
(* Program constants.                                                      *)

MAX_CYCLES == 500

max_history_cycles == 50

HAZARD_NONE == 0

HAZARD_RAW == 1

HAZARD_LOAD_USE == 2

HAZARD_CONTROL == 3

STAGE_ID == 2

STAGE_EX == 3

STAGE_MEM == 4

STAGE_WB == 5

TEXT_BASE == 4194304

PIPE_MAGIC == 1346981957

NumRegs == 32

Stages == {"IF", "ID", "EX", "MEM", "WB"}

-----------------------------------------------------------------------------
(* 32-bit word arithmetic.                                                 *)

\* srl: logical right shift of a two's complement word by k, 1 <= k <= 31
Srl(w, k) ==
    IF w >= 0 THEN w \div (2 ^ k)
    ELSE ((w + 2147483647 + 1) \div (2 ^ k)) + 2 ^ (31 - k)

\* andi with a mask 2^n - 1
AndMask(w, n) == w % (2 ^ n)

\* The assembler's encodings of the instruction words given to the simulator.
RType(rs, rt, rd, funct) == rs * (2 ^ 21) + rt * (2 ^ 16) + rd * (2 ^ 11) + funct

IType(op, rs, rt, imm) ==
    (IF op >= 32 THEN op - 64 ELSE op) * (2 ^ 26) + rs * (2 ^ 21) + rt * (2 ^ 16) + imm

JType(op, target) == op * (2 ^ 26) + target

\* add $t2,$t0,$t1
ADD_T2 == RType(8, 9, 10, 32)

\* lw $t3,0($t2)
LW_T3 == IType(35, 10, 11, 0)

\* add $t4,$t3,$t2
ADD_T4 == RType(11, 10, 12, 32)

\* beq $t2,$zero,1
BEQ_T2 == IType(4, 10, 0, 1)

\* j 0x00400000
J_BASE == JType(2, 1048576)

\* addi $t0,$zero,5
ADDI_T0 == IType(8, 0, 8, 5)

Words == {ADD_T2, LW_T3, ADD_T4, BEQ_T2, J_BASE, ADDI_T0}

LongWords == {ADD_T2, BEQ_T2}

Scenario == <<ADD_T2, LW_T3, ADD_T4>>

-----------------------------------------------------------------------------
(* decode_instruction, is_load_instruction, is_branch_instruction.         *)

Opcode(w) == AndMask(Srl(w, 26), 6)

Rs(w) == AndMask(Srl(w, 21), 5)

Rt(w) == AndMask(Srl(w, 16), 5)

Rd(w) == AndMask(Srl(w, 11), 5)

Funct(w) == AndMask(w, 6)

\* decode_instruction with the load range ending at lhu (37 left out)
decode_instruction_short_loads(w) ==
    LET op == AndMask(Srl(w, 26), 6)
        rs == AndMask(Srl(w, 21), 5)
        rt == AndMask(Srl(w, 16), 5)
        rd == AndMask(Srl(w, 11), 5)
        fn == AndMask(w, 6) IN
    IF w = 0 THEN [src1 |-> -1, src2 |-> -1, dest |-> -1]
    ELSE IF op = 0 THEN
        IF fn = 8 THEN [src1 |-> rs, src2 |-> -1, dest |-> -1]
        ELSE IF fn = 9 THEN [src1 |-> rs, src2 |-> -1, dest |-> rd]
        ELSE [src1 |-> rs, src2 |-> rt, dest |-> rd]
    ELSE IF op >= 32 /\ op < 37 THEN [src1 |-> rs, src2 |-> -1, dest |-> rt]
    ELSE IF op >= 40 /\ op < 44 THEN [src1 |-> rs, src2 |-> rt, dest |-> -1]
    ELSE IF op >= 4 /\ op < 8 THEN [src1 |-> rs, src2 |-> rt, dest |-> -1]
    ELSE IF op = 2 THEN [src1 |-> -1, src2 |-> -1, dest |-> -1]
    ELSE IF op = 3 THEN [src1 |-> -1, src2 |-> -1, dest |-> 31]
    ELSE IF op = 37 THEN [src1 |-> rs, src2 |-> rt, dest |-> -1]
    ELSE [src1 |-> rs, src2 |-> -1, dest |-> rt]

\* decode_instruction with the last case keeping the defaults of its first lines
decode_instruction_default_none(w) ==
    LET op == AndMask(Srl(w, 26), 6)
        rs == AndMask(Srl(w, 21), 5)
        rt == AndMask(Srl(w, 16), 5)
        rd == AndMask(Srl(w, 11), 5)
        fn == AndMask(w, 6) IN
    IF w = 0 THEN [src1 |-> -1, src2 |-> -1, dest |-> -1]
    ELSE IF op = 0 THEN
        IF fn = 8 THEN [src1 |-> rs, src2 |-> -1, dest |-> -1]
        ELSE IF fn = 9 THEN [src1 |-> rs, src2 |-> -1, dest |-> rd]
        ELSE [src1 |-> rs, src2 |-> rt, dest |-> rd]
    ELSE IF op >= 32 /\ op < 38 THEN [src1 |-> rs, src2 |-> -1, dest |-> rt]
    ELSE IF op >= 40 /\ op < 44 THEN [src1 |-> rs, src2 |-> rt, dest |-> -1]
    ELSE IF op >= 4 /\ op < 8 THEN [src1 |-> rs, src2 |-> rt, dest |-> -1]
    ELSE IF op = 2 THEN [src1 |-> -1, src2 |-> -1, dest |-> -1]
    ELSE IF op = 3 THEN [src1 |-> -1, src2 |-> -1, dest |-> 31]
    ELSE IF op >= 8 /\ op < 16 THEN [src1 |-> rs, src2 |-> -1, dest |-> rt]
    ELSE [src1 |-> -1, src2 |-> -1, dest |-> -1]

\* Returns [src1 ($v0), src2 ($v1), dest ($a1)].
decode_instruction(w) ==
    LET op == Opcode(w) IN
    IF w = 0 THEN [src1 |-> -1, src2 |-> -1, dest |-> -1]
    ELSE IF op = 0 THEN
        IF Funct(w) = 8 THEN [src1 |-> Rs(w), src2 |-> -1, dest |-> -1]
        ELSE IF Funct(w) = 9 THEN [src1 |-> Rs(w), src2 |-> -1, dest |-> Rd(w)]
        ELSE [src1 |-> Rs(w), src2 |-> Rt(w), dest |-> Rd(w)]
    ELSE IF op >= 32 /\ op < 38 THEN [src1 |-> Rs(w), src2 |-> -1, dest |-> Rt(w)]
    ELSE IF op >= 40 /\ op < 44 THEN [src1 |-> Rs(w), src2 |-> Rt(w), dest |-> -1]
    ELSE IF op >= 4 /\ op < 8 THEN [src1 |-> Rs(w), src2 |-> Rt(w), dest |-> -1]
    ELSE IF op = 2 THEN [src1 |-> -1, src2 |-> -1, dest |-> -1]
    ELSE IF op = 3 THEN [src1 |-> -1, src2 |-> -1, dest |-> 31]
    ELSE [src1 |-> Rs(w), src2 |-> -1, dest |-> Rt(w)]

is_load_instruction(w) ==
    IF Opcode(w) \in {32, 33, 35, 36, 37} THEN 1 ELSE 0

is_branch_instruction(w) ==
    LET op == Opcode(w) IN
    IF op \in {2, 3, 4, 5, 6, 7} THEN 1
    ELSE IF op # 0 THEN 0
    ELSE IF Funct(w) \in {8, 9} THEN 1
    ELSE 0

-----------------------------------------------------------------------------
(* The machine record: every .data word the subroutines read or write.     *)

ZeroSlot == [instr |-> 0, pc |-> 0, valid |-> 0, src1 |-> 0, src2 |-> 0, dest |-> 0]

ZeroHazard ==
    [hazard_detected |-> 0, hazard_type |-> 0, hazard_stage |-> 0,
     stall_required |-> 0, forward_from |-> 0, forward_to |-> 0, forward_reg |-> 0]

ZeroMetrics ==
    [total_cycles |-> 0, total_instructions |-> 0, stall_cycles |-> 0,
     forward_count |-> 0, branch_stalls |-> 0, load_use_stalls |-> 0,
     raw_hazards |-> 0, cpi_numerator |-> 0, cpi_denominator |-> 0]

\* The .data section as loaded, with the injected input.
Load(cnt, buf, fwd, bp) ==
    [instruction_count |-> cnt, instruction_buffer |-> buf,
     enable_forwarding |-> fwd, enable_branch_predict |-> bp,
     stage |-> [s \in Stages |-> ZeroSlot],
     hazard |-> ZeroHazard,
     metrics |-> ZeroMetrics,
     cycle_history |-> << >>,
     scoreboard |-> [r \in 0 .. NumRegs - 1 |-> 0],
     current_cycle |-> 0, pc_current |-> 0, simulation_done |-> 0,
     pipeline_magic |-> 0, a0 |-> 0]

Machine ==
    [instruction_count |-> instruction_count,
     instruction_buffer |-> instruction_buffer,
     enable_forwarding |-> enable_forwarding,
     enable_branch_predict |-> enable_branch_predict,
     stage |-> stage, hazard |-> hazard, metrics |-> metrics,
     cycle_history |-> cycle_history, scoreboard |-> scoreboard,
     current_cycle |-> current_cycle, pc_current |-> pc_current,
     simulation_done |-> simulation_done, pipeline_magic |-> pipeline_magic,
     a0 |-> a0]

Install(m) ==
    /\ instruction_count' = m.instruction_count
    /\ instruction_buffer' = m.instruction_buffer
    /\ enable_forwarding' = m.enable_forwarding
    /\ enable_branch_predict' = m.enable_branch_predict
    /\ stage' = m.stage
    /\ hazard' = m.hazard
    /\ metrics' = m.metrics
    /\ cycle_history' = m.cycle_history
    /\ scoreboard' = m.scoreboard
    /\ current_cycle' = m.current_cycle
    /\ pc_current' = m.pc_current
    /\ simulation_done' = m.simulation_done
    /\ pipeline_magic' = m.pipeline_magic
    /\ a0' = m.a0

-----------------------------------------------------------------------------
(* init_pipeline                                                           *)

init_pipeline(m) ==
    [m EXCEPT !.stage = [s \in Stages |-> ZeroSlot],
              !.scoreboard = [r \in 0 .. NumRegs - 1 |-> 0],
              !.metrics = [@ EXCEPT !.total_cycles = 0, !.total_instructions = 0,
                                    !.stall_cycles = 0, !.forward_count = 0,
                                    !.branch_stalls = 0, !.load_use_stalls = 0,
                                    !.raw_hazards = 0],
              !.cycle_history = << >>]

-----------------------------------------------------------------------------
(* process_WB_stage                                                        *)

\* process_WB_stage counting a completion whether or not the WB slot is valid
process_WB_stage_count_all(m) ==
    LET wb == m.stage.WB
        sb == IF wb.valid # 0 /\ wb.dest >= 0
              THEN [m.scoreboard EXCEPT ![wb.dest] = 0]
              ELSE m.scoreboard
    IN [m EXCEPT !.metrics.total_instructions = @ + 1, !.scoreboard = sb,
                 !.stage.WB = m.stage.MEM]

\* process_WB_stage clearing after the move: the entry of the slot that has
\* just entered WB
process_WB_stage_clear_late(m) ==
    LET wb == m.stage.WB
        mem == m.stage.MEM
        met == IF wb.valid # 0
               THEN [m.metrics EXCEPT !.total_instructions = @ + 1]
               ELSE m.metrics
        sb == IF mem.valid # 0 /\ mem.dest >= 0
              THEN [m.scoreboard EXCEPT ![mem.dest] = 0]
              ELSE m.scoreboard
    IN [m EXCEPT !.metrics = met, !.scoreboard = sb, !.stage.WB = mem]

process_WB_stage(m) ==
    LET wb == m.stage.WB
        completing == wb.valid # 0
        met == IF completing
               THEN [m.metrics EXCEPT !.total_instructions = @ + 1]
               ELSE m.metrics
        sb == IF completing /\ wb.dest >= 0
              THEN [m.scoreboard EXCEPT ![wb.dest] = 0]
              ELSE m.scoreboard
    IN [m EXCEPT !.metrics = met, !.scoreboard = sb, !.stage.WB = m.stage.MEM]

-----------------------------------------------------------------------------
(* process_MEM_stage                                                       *)

\* process_MEM_stage without the scoreboard update
process_MEM_stage_copy_only(m) == [m EXCEPT !.stage.MEM = m.stage.EX]

process_MEM_stage(m) ==
    LET ex == m.stage.EX
        sb == IF ex.dest >= 0
              THEN [m.scoreboard EXCEPT ![ex.dest] = STAGE_MEM]
              ELSE m.scoreboard
    IN [m EXCEPT !.stage.MEM = ex, !.scoreboard = sb]

-----------------------------------------------------------------------------
(* detect_hazards, one operator per label. s0 = ID instruction word,       *)
(* t2 = src1, t3 = src2, t6 = scoreboard entry of the operand.             *)

hazard_done(m) == m

no_hazard(m) ==
    [m EXCEPT !.hazard.hazard_detected = 0,
              !.hazard.hazard_type = HAZARD_NONE,
              !.hazard.stall_required = 0]

\* branch_predict without the count
branch_predict_uncounted(m) == hazard_done(m)

branch_predict(m) ==
    hazard_done([m EXCEPT !.metrics.branch_stalls = @ + 1])

check_control(m, s0) ==
    LET m1 == [m EXCEPT !.a0 = s0] IN
    IF is_branch_instruction(s0) = 0 THEN no_hazard(m1)
    ELSE LET m2 == [m1 EXCEPT !.hazard.hazard_detected = 1,
                              !.hazard.hazard_type = HAZARD_CONTROL]
         IN IF m2.enable_branch_predict # 0 THEN branch_predict(m2)
            ELSE hazard_done([m2 EXCEPT !.hazard.stall_required = 1,
                                        !.metrics.branch_stalls = @ + 1])

\* must_stall_src2 without the store to hazard_type
must_stall_src2_no_kind(m) ==
    hazard_done([m EXCEPT !.hazard.stall_required = 1])

must_stall_src2(m) ==
    hazard_done([m EXCEPT !.hazard.stall_required = 1,
                          !.hazard.hazard_type = HAZARD_RAW])

try_forward_src2(m, s0) ==
    IF m.enable_forwarding = 0 THEN must_stall_src2(m)
    ELSE check_control([m EXCEPT !.metrics.forward_count = @ + 1], s0)

\* check_src2 without the "$zero" test
check_src2_zero_hazard(m, s0, t3) ==
    IF t3 < 0 THEN check_control(m, s0)
    ELSE LET t6 == m.scoreboard[t3] IN
         IF t6 = 0 THEN check_control(m, s0)
         ELSE LET m1 == [m EXCEPT !.hazard.hazard_detected = 1] IN
              IF t6 # STAGE_EX THEN try_forward_src2(m1, s0)
              ELSE LET m2 == [m1 EXCEPT !.a0 = m1.stage.EX.instr] IN
                   IF is_load_instruction(m2.a0) = 0 THEN try_forward_src2(m2, s0)
                   ELSE hazard_done(
                            [m2 EXCEPT !.hazard.hazard_type = HAZARD_LOAD_USE,
                                       !.hazard.stall_required = 1,
                                       !.metrics.load_use_stalls = @ + 1])

check_src2(m, s0, t3) ==
    IF t3 < 0 \/ t3 = 0 THEN check_control(m, s0)
    ELSE LET t6 == m.scoreboard[t3] IN
         IF t6 = 0 THEN check_control(m, s0)
         ELSE LET m1 == [m EXCEPT !.hazard.hazard_detected = 1] IN
              IF t6 # STAGE_EX THEN try_forward_src2(m1, s0)
              ELSE LET m2 == [m1 EXCEPT !.a0 = m1.stage.EX.instr] IN
                   IF is_load_instruction(m2.a0) = 0 THEN try_forward_src2(m2, s0)
                   ELSE hazard_done(
                            [m2 EXCEPT !.hazard.hazard_type = HAZARD_LOAD_USE,
                                       !.hazard.stall_required = 1,
                                       !.metrics.load_use_stalls = @ + 1])

\* must_stall going on to the control check instead of hazard_done
must_stall_then_control(m) ==
    check_control([m EXCEPT !.hazard.stall_required = 1,
                            !.hazard.hazard_type = HAZARD_RAW],
                  m.stage.ID.instr)

must_stall(m) ==
    hazard_done([m EXCEPT !.hazard.stall_required = 1,
                          !.hazard.hazard_type = HAZARD_RAW])

forward_from_ex(m, s0, t2, t3) ==
    check_src2([m EXCEPT !.hazard.forward_from = STAGE_EX,
                         !.hazard.forward_to = STAGE_ID,
                         !.hazard.forward_reg = t2,
                         !.metrics.forward_count = @ + 1,
                         !.hazard.hazard_type = HAZARD_RAW], s0, t3)

forward_from_mem(m, s0, t2, t3) ==
    check_src2([m EXCEPT !.hazard.forward_from = STAGE_MEM,
                         !.hazard.forward_to = STAGE_ID,
                         !.hazard.forward_reg = t2,
                         !.metrics.forward_count = @ + 1,
                         !.hazard.hazard_type = HAZARD_RAW], s0, t3)

\* forward_from_wb does not store hazard_type
forward_from_wb(m, s0, t2, t3) ==
    check_src2([m EXCEPT !.hazard.forward_from = STAGE_WB,
                         !.hazard.forward_to = STAGE_ID,
                         !.hazard.forward_reg = t2,
                         !.metrics.forward_count = @ + 1], s0, t3)

try_forward_src1(m, s0, t2, t3, t6) ==
    IF m.enable_forwarding = 0 THEN must_stall(m)
    ELSE IF t6 = STAGE_MEM THEN forward_from_mem(m, s0, t2, t3)
    ELSE IF t6 = STAGE_WB THEN forward_from_wb(m, s0, t2, t3)
    ELSE IF t6 = STAGE_EX THEN forward_from_ex(m, s0, t2, t3)
    ELSE must_stall(m)

\* check_src1 without the "$zero never has hazard" test
check_src1_zero_hazard(m, s0, t2, t3) ==
    IF t2 < 0 THEN check_src2(m, s0, t3)
    ELSE LET t6 == m.scoreboard[t2] IN
         IF t6 = 0 THEN check_src2(m, s0, t3)
         ELSE LET m1 == [m EXCEPT !.hazard.hazard_detected = 1,
                                  !.metrics.raw_hazards = 1]
              IN IF t6 # STAGE_EX THEN try_forward_src1(m1, s0, t2, t3, t6)
                 ELSE IF is_load_instruction(m1.a0) = 0
                      THEN try_forward_src1(m1, s0, t2, t3, t6)
                 ELSE hazard_done(
                          [m1 EXCEPT !.hazard.hazard_type = HAZARD_LOAD_USE,
                                     !.hazard.stall_required = 1,
                                     !.metrics.load_use_stalls = @ + 1])

\* "sw $t7, raw_hazards" stores the 1 held in $t7; is_load_instruction is
\* called with $a0 as the previous call left it ($t8 holds the EX word).
check_src1(m, s0, t2, t3) ==
    IF t2 < 0 \/ t2 = 0 THEN check_src2(m, s0, t3)
    ELSE LET t6 == m.scoreboard[t2] IN
         IF t6 = 0 THEN check_src2(m, s0, t3)
         ELSE LET m1 == [m EXCEPT !.hazard.hazard_detected = 1,
                                  !.metrics.raw_hazards = 1]
              IN IF t6 # STAGE_EX THEN try_forward_src1(m1, s0, t2, t3, t6)
                 ELSE IF is_load_instruction(m1.a0) = 0
                      THEN try_forward_src1(m1, s0, t2, t3, t6)
                 ELSE hazard_done(
                          [m1 EXCEPT !.hazard.hazard_type = HAZARD_LOAD_USE,
                                     !.hazard.stall_required = 1,
                                     !.metrics.load_use_stalls = @ + 1])

\* detect_hazards with raw_hazards among the words its first lines clear
detect_hazards_reset_raw(m) ==
    LET m0 == [m EXCEPT !.hazard.hazard_detected = 0,
                        !.hazard.hazard_type = 0,
                        !.hazard.stall_required = 0,
                        !.hazard.forward_from = 0,
                        !.hazard.forward_to = 0,
                        !.metrics.raw_hazards = 0]
        id == m0.stage.ID
    IN IF id.valid = 0 THEN no_hazard(m0)
       ELSE check_src1(m0, id.instr, id.src1, id.src2)

detect_hazards(m) ==
    LET m0 == [m EXCEPT !.hazard.hazard_detected = 0,
                        !.hazard.hazard_type = 0,
                        !.hazard.stall_required = 0,
                        !.hazard.forward_from = 0,
                        !.hazard.forward_to = 0]
        id == m0.stage.ID
    IN IF id.valid = 0 THEN no_hazard(m0)
       ELSE check_src1(m0, id.instr, id.src1, id.src2)

-----------------------------------------------------------------------------
(* process_EX_stage, process_ID_stage, process_IF_stage                    *)

Bubble == [instr |-> 0, pc |-> 0, valid |-> 0, src1 |-> -1, src2 |-> -1, dest |-> -1]

\* process_EX_stage leaving EX as it is on a stall
process_EX_stage_no_bubble(m) ==
    IF m.hazard.stall_required # 0 THEN m
    ELSE LET id == m.stage.ID
             sb == IF id.dest >= 0
                   THEN [m.scoreboard EXCEPT ![id.dest] = STAGE_EX]
                   ELSE m.scoreboard
         IN [m EXCEPT !.stage.EX = id, !.scoreboard = sb]

process_EX_stage(m) ==
    IF m.hazard.stall_required # 0 THEN [m EXCEPT !.stage.EX = Bubble]
    ELSE LET id == m.stage.ID
             sb == IF id.dest >= 0
                   THEN [m.scoreboard EXCEPT ![id.dest] = STAGE_EX]
                   ELSE m.scoreboard
         IN [m EXCEPT !.stage.EX = id, !.scoreboard = sb]

\* process_ID_stage keeping the stalled instruction in ID
process_ID_stage_hold(m) ==
    IF m.hazard.stall_required # 0 THEN m
    ELSE LET f == m.stage.IF
             copied == [m.stage.ID EXCEPT !.instr = f.instr, !.pc = f.pc,
                                          !.valid = f.valid]
             d == decode_instruction(f.instr)
         IN IF f.valid = 0
            THEN [m EXCEPT !.stage.ID = copied, !.a0 = f.instr]
            ELSE [m EXCEPT !.stage.ID = [copied EXCEPT !.src1 = d.src1,
                                                       !.src2 = d.src2,
                                                       !.dest = d.dest],
                           !.a0 = f.instr]

\* Only instr, pc and valid are copied from IF; src1, src2 and dest are stored
\* when the copied slot is valid and keep their old values otherwise.
process_ID_stage(m) ==
    IF m.hazard.stall_required # 0 THEN [m EXCEPT !.stage.ID = Bubble]
    ELSE LET f == m.stage.IF
             copied == [m.stage.ID EXCEPT !.instr = f.instr, !.pc = f.pc,
                                          !.valid = f.valid]
             d == decode_instruction(f.instr)
         IN IF f.valid = 0
            THEN [m EXCEPT !.stage.ID = copied, !.a0 = f.instr]
            ELSE [m EXCEPT !.stage.ID = [copied EXCEPT !.src1 = d.src1,
                                                       !.src2 = d.src2,
                                                       !.dest = d.dest],
                           !.a0 = f.instr]

\* process_IF_stage fetching without the increment of pc_current
process_IF_stage_no_advance(m) ==
    IF m.hazard.stall_required # 0
    THEN [m EXCEPT !.metrics.stall_cycles = @ + 1]
    ELSE IF m.pc_current >= m.instruction_count
    THEN [m EXCEPT !.stage.IF.instr = 0, !.stage.IF.pc = 0, !.stage.IF.valid = 0]
    ELSE [m EXCEPT !.stage.IF.instr = m.instruction_buffer[m.pc_current + 1],
                   !.stage.IF.pc = m.pc_current * 4 + TEXT_BASE,
                   !.stage.IF.valid = 1]

\* process_IF_stage without the stall counter
process_IF_stage_uncounted(m) ==
    IF m.hazard.stall_required # 0 THEN m
    ELSE IF m.pc_current >= m.instruction_count
    THEN [m EXCEPT !.stage.IF.instr = 0, !.stage.IF.pc = 0, !.stage.IF.valid = 0]
    ELSE [m EXCEPT !.stage.IF.instr = m.instruction_buffer[m.pc_current + 1],
                   !.stage.IF.pc = m.pc_current * 4 + TEXT_BASE,
                   !.stage.IF.valid = 1,
                   !.pc_current = @ + 1]

process_IF_stage(m) ==
    IF m.hazard.stall_required # 0
    THEN [m EXCEPT !.metrics.stall_cycles = @ + 1]
    ELSE IF m.pc_current >= m.instruction_count
    THEN [m EXCEPT !.stage.IF.instr = 0, !.stage.IF.pc = 0, !.stage.IF.valid = 0]
    ELSE [m EXCEPT !.stage.IF.instr = m.instruction_buffer[m.pc_current + 1],
                   !.stage.IF.pc = m.pc_current * 4 + TEXT_BASE,
                   !.stage.IF.valid = 1,
                   !.pc_current = @ + 1]

-----------------------------------------------------------------------------
(* record_cycle_history, check_simulation_done, calculate_metrics          *)

\* record_cycle_history as a ring: a full buffer is overwritten from entry 1
record_cycle_history_ring(m) ==
    LET entry == [cycle_num |-> m.current_cycle,
                  IF_instr |-> m.stage.IF.instr,
                  ID_instr |-> m.stage.ID.instr,
                  EX_instr |-> m.stage.EX.instr,
                  MEM_instr |-> m.stage.MEM.instr,
                  WB_instr |-> m.stage.WB.instr,
                  hazard_type |-> m.hazard.hazard_type,
                  stall |-> m.hazard.stall_required,
                  forward |-> IF 0 < m.hazard.forward_from THEN 1 ELSE 0]
    IN IF Len(m.cycle_history) >= max_history_cycles
       THEN [m EXCEPT !.cycle_history[((m.current_cycle - 1) % max_history_cycles) + 1]
                          = entry]
       ELSE [m EXCEPT !.cycle_history = Append(@, entry)]

\* record_cycle_history reading each word one slot too early (the last from
\* WB again)
record_cycle_history_shifted(m) ==
    IF Len(m.cycle_history) >= max_history_cycles THEN m
    ELSE [m EXCEPT !.cycle_history = Append(@,
             [cycle_num |-> m.current_cycle,
              IF_instr |-> m.stage.IF.instr,
              ID_instr |-> m.stage.IF.instr,
              EX_instr |-> m.stage.ID.instr,
              MEM_instr |-> m.stage.EX.instr,
              WB_instr |-> m.stage.WB.instr,
              hazard_type |-> m.hazard.hazard_type,
              stall |-> m.hazard.stall_required,
              forward |-> IF 0 < m.hazard.forward_from THEN 1 ELSE 0])]

record_cycle_history(m) ==
    IF Len(m.cycle_history) >= max_history_cycles THEN m
    ELSE [m EXCEPT !.cycle_history = Append(@,
             [cycle_num |-> m.current_cycle,
              IF_instr |-> m.stage.IF.instr,
              ID_instr |-> m.stage.ID.instr,
              EX_instr |-> m.stage.EX.instr,
              MEM_instr |-> m.stage.MEM.instr,
              WB_instr |-> m.stage.WB.instr,
              hazard_type |-> m.hazard.hazard_type,
              stall |-> m.hazard.stall_required,
              forward |-> IF 0 < m.hazard.forward_from THEN 1 ELSE 0])]

\* check_simulation_done without the test of the WB slot
check_simulation_done_four_slots(m) ==
    IF m.pc_current < m.instruction_count THEN [m EXCEPT !.simulation_done = 0]
    ELSE IF \E s \in Stages \ {"WB"} : m.stage[s].valid # 0
    THEN [m EXCEPT !.simulation_done = 0]
    ELSE [m EXCEPT !.simulation_done = 1]

check_simulation_done(m) ==
    IF m.pc_current < m.instruction_count THEN [m EXCEPT !.simulation_done = 0]
    ELSE IF \E s \in Stages : m.stage[s].valid # 0
    THEN [m EXCEPT !.simulation_done = 0]
    ELSE [m EXCEPT !.simulation_done = 1]

\* calculate_metrics without the scaling of the numerator by 100
calculate_metrics_unscaled(m) ==
    IF m.metrics.total_instructions = 0
    THEN [m EXCEPT !.metrics.cpi_numerator = 0, !.metrics.cpi_denominator = 1]
    ELSE [m EXCEPT !.metrics.cpi_numerator = m.metrics.total_cycles,
                   !.metrics.cpi_denominator = m.metrics.total_instructions]

calculate_metrics(m) ==
    IF m.metrics.total_instructions = 0
    THEN [m EXCEPT !.metrics.cpi_numerator = 0, !.metrics.cpi_denominator = 1]
    ELSE [m EXCEPT !.metrics.cpi_numerator = m.metrics.total_cycles * 100,
                   !.metrics.cpi_denominator = m.metrics.total_instructions]

-----------------------------------------------------------------------------
(* main and simulation_loop                                                *)

\* main up to simulation_loop; the returned ctl is the label reached.
main_entry(m) ==
    LET m1 == init_pipeline(m) IN
    IF m1.instruction_count = 0 THEN [m |-> m1, ctl |-> "simulation_complete"]
    ELSE [m |-> [m1 EXCEPT !.current_cycle = 0, !.pc_current = 0,
                           !.simulation_done = 0],
          ctl |-> "simulation_loop"]

\* head of simulation_loop: the done test and the two cycle counters
loop_head(m) ==
    IF m.simulation_done # 0 THEN [m |-> m, ctl |-> "simulation_complete"]
    ELSE [m |-> [m EXCEPT !.current_cycle = @ + 1, !.metrics.total_cycles = @ + 1],
          ctl |-> "process_WB_stage"]

\* cycle_limit with the cap test left out
cycle_limit_uncapped(m) == "simulation_loop"

\* "bge $t0, $t1, simulation_complete" with $t1 = 500
cycle_limit(m) ==
    IF m.current_cycle >= MAX_CYCLES THEN "simulation_complete" ELSE "simulation_loop"

simulation_complete(m) ==
    [calculate_metrics(m) EXCEPT !.pipeline_magic = PIPE_MAGIC]

-----------------------------------------------------------------------------
(* The state machine.                                                      *)

Programs ==
    UNION {[1 .. n -> Words] : n \in 0 .. MaxInstr}
        \cup {[i \in 1 .. LongCount |-> w] : w \in LongWords}

\* the state of the loaded program, for an input drawn from P
InitWith(P) ==
    /\ ctl = "main"
    /\ \E buf \in P, fwd \in {0, 1}, bp \in {0, 1} :
          /\ instruction_count = Len(buf)
          /\ instruction_buffer = buf
          /\ enable_forwarding = fwd
          /\ enable_branch_predict = bp
    /\ stage = [s \in Stages |-> ZeroSlot]
    /\ hazard = ZeroHazard
    /\ metrics = ZeroMetrics
    /\ cycle_history = << >>
    /\ scoreboard = [r \in 0 .. NumRegs - 1 |-> 0]
    /\ current_cycle = 0
    /\ pc_current = 0
    /\ simulation_done = 0
    /\ pipeline_magic = 0
    /\ a0 = 0

Init == InitWith(Programs)

Main ==
    /\ ctl = "main"
    /\ Install(main_entry(Machine).m)
    /\ ctl' = main_entry(Machine).ctl

LoopHead ==
    /\ ctl = "simulation_loop"
    /\ Install(loop_head(Machine).m)
    /\ ctl' = loop_head(Machine).ctl

WB ==
    /\ ctl = "process_WB_stage"
    /\ Install(process_WB_stage(Machine))
    /\ ctl' = "process_MEM_stage"

MEM ==
    /\ ctl = "process_MEM_stage"
    /\ Install(process_MEM_stage(Machine))
    /\ ctl' = "detect_hazards"

Detect ==
    /\ ctl = "detect_hazards"
    /\ Install(detect_hazards(Machine))
    /\ ctl' = "process_EX_stage"

EX ==
    /\ ctl = "process_EX_stage"
    /\ Install(process_EX_stage(Machine))
    /\ ctl' = "process_ID_stage"

ID ==
    /\ ctl = "process_ID_stage"
    /\ Install(process_ID_stage(Machine))
    /\ ctl' = "process_IF_stage"

IF_ ==
    /\ ctl = "process_IF_stage"
    /\ Install(process_IF_stage(Machine))
    /\ ctl' = "record_cycle_history"

Record ==
    /\ ctl = "record_cycle_history"
    /\ Install(record_cycle_history(Machine))
    /\ ctl' = "check_simulation_done"

CheckDone ==
    /\ ctl = "check_simulation_done"
    /\ Install(check_simulation_done(Machine))
    /\ ctl' = "cycle_limit"

CycleLimit ==
    /\ ctl = "cycle_limit"
    /\ ctl' = cycle_limit(Machine)
    /\ Install(Machine)

Complete ==
    /\ ctl = "simulation_complete"
    /\ Install(simulation_complete(Machine))
    /\ ctl' = "exit"

Next ==
    \/ Main \/ LoopHead \/ WB \/ MEM \/ Detect \/ EX \/ ID \/ IF_
    \/ Record \/ CheckDone \/ CycleLimit \/ Complete

Spec == Init /\ [][Next]_vars

\* The inputs of the termination check: every program of up to MaxInstrFair
\* words, and the long programs.
FairPrograms ==
    UNION {[1 .. n -> Words] : n \in 0 .. MaxInstrFair}
        \cup {[i \in 1 .. LongCount |-> w] : w \in LongWords}

FairInit == InitWith(FairPrograms)

\* The inputs of the decoder checks: one-word programs whose word takes every
\* opcode, with register fields and function codes from DecodeRegs, DecodeRd
\* and DecodeFunct; and the long programs.
DecodeRegs == {0, 10, 31}

DecodeRd == {0, 31}

DecodeFunct == {0, 8, 9, 32}

DecodeWords ==
    {IType(op, rs, rt, rd * (2 ^ 11) + fn) :
        op \in 0 .. 63, rs \in DecodeRegs, rt \in DecodeRegs,
        rd \in DecodeRd, fn \in DecodeFunct}

DecodePrograms ==
    {<<w>> : w \in DecodeWords}
        \cup {[i \in 1 .. LongCount |-> w] : w \in LongWords}

DecodeInit == InitWith(DecodePrograms)

DecodeSpec == DecodeInit /\ [][Next]_vars

\* The inputs of the cycle-bound check: every program of up to MaxInstrFair
\* words, the programs of CapFreeCount equal words, and the long programs.
CapFreeCount == 100

BoundPrograms ==
    UNION {[1 .. n -> Words] : n \in 0 .. MaxInstrFair}
        \cup {[i \in 1 .. CapFreeCount |-> w] : w \in LongWords}
        \cup {[i \in 1 .. LongCount |-> w] : w \in LongWords}

BoundInit == InitWith(BoundPrograms)

BoundSpec == BoundInit /\ [][Next]_vars

\* The program runs to its exit syscall: no step is ever withheld.
FairSpec == FairInit /\ [][Next]_vars /\ WF_vars(Next)

TypeOK ==
    /\ ctl \in {"main", "simulation_loop", "process_WB_stage", "process_MEM_stage",
                "detect_hazards", "process_EX_stage", "process_ID_stage",
                "process_IF_stage", "record_cycle_history", "check_simulation_done",
                "cycle_limit", "simulation_complete", "exit"}
    /\ \A s \in Stages : stage[s].valid \in {0, 1}
    /\ \A r \in 0 .. NumRegs - 1 : scoreboard[r] \in 0 .. 5

-----------------------------------------------------------------------------
(* A whole run as a function of the input, composed of the same            *)
(* subroutines in the order simulation_loop calls them.                    *)

cycle(m) ==
    check_simulation_done(record_cycle_history(process_IF_stage(
        process_ID_stage(process_EX_stage(detect_hazards(
            process_MEM_stage(process_WB_stage(m))))))))

RECURSIVE run_loop(_)
run_loop(m) ==
    LET h == loop_head(m) IN
    IF h.ctl = "simulation_complete" THEN h.m
    ELSE LET m1 == cycle(h.m) IN
         IF cycle_limit(m1) = "simulation_complete" THEN m1 ELSE run_loop(m1)

simulate(cnt, buf, fwd, bp) ==
    LET e == main_entry(Load(cnt, buf, fwd, bp)) IN
    simulation_complete(IF e.ctl = "simulation_complete" THEN e.m ELSE run_loop(e.m))

-----------------------------------------------------------------------------
(* Vocabulary of the properties.                                           *)

\* the hazard report of this cycle has just been computed
AtReport == ctl = "process_EX_stage"

\* index in instruction_buffer (from 0) of the instruction a valid slot holds
Index(slot) == (slot.pc - TEXT_BASE) \div 4

\* fetch pointer at the end and all five slots invalid
Drained ==
    /\ pc_current >= instruction_count
    /\ \A s \in Stages : stage[s].valid = 0

IsLoadClass(w) == w # 0 /\ Opcode(w) >= 32 /\ Opcode(w) < 38

\* the slot is valid and reads register r (r is a real register, not $zero)
Reads(slot, r) == slot.valid = 1 /\ r > 0 /\ (slot.src1 = r \/ slot.src2 = r)

\* ID holds the instruction that follows a load in the program and reads the
\* load's destination, and the load is the instruction directly ahead of it
LoadUseCase ==
    /\ stage.ID.valid = 1
    /\ Index(stage.ID) >= 1
    /\ LET ld == instruction_buffer[Index(stage.ID)] IN
          /\ IsLoadClass(ld)
          /\ Reads(stage.ID, decode_instruction(ld).dest)
    /\ stage.MEM.valid = 1
    /\ stage.MEM.pc = stage.ID.pc - 4

\* no instruction reads the destination of an earlier one, and none is a
\* branch or jump
NoRegisterReuse(buf) ==
    /\ \A j \in 1 .. Len(buf) : is_branch_instruction(buf[j]) = 0
    /\ \A j \in 1 .. Len(buf) : \A i \in 1 .. j - 1 :
          LET d == decode_instruction(buf[i]).dest
              u == decode_instruction(buf[j])
          IN d >= 0 => (u.src1 # d /\ u.src2 # d)

-----------------------------------------------------------------------------
(* Properties.                                                             *)

\* C1: with forwarding enabled, when the instruction in ID directly follows a
\* load and reads the load's destination register, the report of that cycle
\* has kind LoadUse and stall_required set, and load_use_stalls was incremented.
C1_LoadUsePrecedence ==
    (AtReport /\ enable_forwarding = 1 /\ LoadUseCase)
        => /\ hazard.hazard_type = HAZARD_LOAD_USE
           /\ hazard.stall_required = 1
           /\ metrics.load_use_stalls >= 1

\* C2: the scenario [add $t2,$t0,$t1; lw $t3,0($t2); add $t4,$t3,$t2] with
\* forwarding on and branch prediction off ends with stall_cycles = 1,
\* load_use_stalls = 1 and total_instructions = 3.
C2_Scenario ==
    (ctl = "exit" /\ instruction_buffer = Scenario
        /\ enable_forwarding = 1 /\ enable_branch_predict = 0)
        => /\ metrics.stall_cycles = 1
           /\ metrics.load_use_stalls = 1
           /\ metrics.total_instructions = 3

\* C3: no instruction is lost by a stall: in the cycle after a stall the
\* stalled instruction (the one ID held when the stall was detected) is in ID
\* again, and a run that drained has completed every instruction it fetched.
C3_NoInstructionLost ==
    /\ LET k == Len(cycle_history) IN
       (ctl = "record_cycle_history" /\ current_cycle = k + 1 /\ k >= 2
            /\ cycle_history[k].stall = 1)
           => /\ stage.ID.valid = 1
              /\ stage.ID.instr = cycle_history[k - 1].ID_instr
    /\ (ctl = "exit" /\ Drained) => metrics.total_instructions = pc_current

\* C4: a scoreboard entry is never left busy once the run has drained, and is
\* never clear while a valid instruction in EX, MEM or WB that writes the
\* register has not completed Writeback. (Stated for the registers 1..31;
\* register 0 is the subject of C5.)
C4_ScoreboardClears ==
    /\ (ctl = "exit" /\ Drained) => \A r \in 1 .. NumRegs - 1 : scoreboard[r] = 0
    /\ \A s \in {"EX", "MEM", "WB"} :
          (stage[s].valid = 1 /\ stage[s].dest >= 1) => scoreboard[stage[s].dest] # 0

\* C5: the scoreboard entry of register 0 is 0 in every reachable state.
C5_RegisterZeroNeverBusy == scoreboard[0] = 0

\* C6: from initialization on, every slot with valid = 0 has instruction
\* word 0 and src1 = src2 = dest = -1.
C6_BubbleRepresentation ==
    ctl # "main" =>
        \A s \in Stages :
            stage[s].valid = 0 =>
                /\ stage[s].instr = 0
                /\ stage[s].src1 = -1
                /\ stage[s].src2 = -1
                /\ stage[s].dest = -1

\* C7: every run terminates, total_cycles never exceeds 500, and a run that
\* ends with the program not drained ends with total_cycles = 500.
C7_TerminationBound ==
    /\ <>(ctl = "exit")
    /\ [](/\ metrics.total_cycles <= MAX_CYCLES
          /\ (ctl = "exit" /\ ~Drained) => metrics.total_cycles = MAX_CYCLES)

\* a run cut off by the cap with instructions still in the pipeline
C7_Witness == ctl = "exit" /\ ~Drained /\ metrics.total_cycles = MAX_CYCLES

\* C8: completed instructions never exceed cycles, and at termination with a
\* completed instruction the reported CPI is at least 1.0:
\* cpi_numerator = 100 * total_cycles >= 100 * cpi_denominator.
C8_CPIAtLeastOne ==
    /\ metrics.total_instructions <= metrics.total_cycles
    /\ (ctl = "exit" /\ metrics.total_instructions > 0)
          => /\ metrics.cpi_numerator = 100 * metrics.total_cycles
             /\ metrics.cpi_denominator = metrics.total_instructions
             /\ metrics.cpi_numerator >= 100 * metrics.cpi_denominator

\* a finished run that completed instructions
C8_Witness ==
    ctl = "exit" /\ metrics.total_instructions >= 2 /\ metrics.stall_cycles >= 1

\* C9: the run with forwarding and the run without it, on the same program
\* and branch-prediction flag, end with equal raw_hazards, with forward_count
\* zero in the run without forwarding, and with strictly more stall_cycles in
\* the run without forwarding.
C9_ForwardStallToggle ==
    (ctl = "exit" /\ enable_forwarding = 1) =>
        LET off == simulate(instruction_count, instruction_buffer, 0,
                            enable_branch_predict)
        IN /\ off.metrics.raw_hazards = metrics.raw_hazards
           /\ off.metrics.forward_count = 0
           /\ off.metrics.stall_cycles > metrics.stall_cycles

\* C10: a program without register reuse and without branches or jumps has
\* raw_hazards = 0 and stall_cycles = 0, whatever the forwarding flag.
C10_NoHazardBaseline ==
    (metrics.raw_hazards # 0 \/ metrics.stall_cycles # 0)
        => ~NoRegisterReuse(instruction_buffer)

\* a finished run of three instructions without register reuse, one of them
\* reading $zero, with forwarding disabled
C10_Witness ==
    /\ ctl = "exit"
    /\ instruction_count = 3
    /\ NoRegisterReuse(instruction_buffer)
    /\ \E j \in 1 .. 3 : instruction_buffer[j] = ADDI_T0
    /\ enable_forwarding = 0
    /\ metrics.total_instructions = 3

\* the stepwise run and the run function agree
RunAgrees ==
    ctl = "exit" =>
        Machine = simulate(instruction_count, instruction_buffer,
                           enable_forwarding, enable_branch_predict)


\* number of cycles whose record_cycle_history call has returned
CompletedCycles ==
    IF ctl \in {"process_WB_stage", "process_MEM_stage", "detect_hazards",
                "process_EX_stage", "process_ID_stage", "process_IF_stage",
                "record_cycle_history"}
    THEN current_cycle - 1
    ELSE current_cycle

\* C11: after k completed cycles the history holds the entries of the cycles
\* 1 .. min(k, 50) in order, and no step removes or changes an entry once it
\* is in the history (a full history is left as it is).
C11_HistoryCeiling ==
    /\ [](LET k == CompletedCycles
              n == IF k < max_history_cycles THEN k ELSE max_history_cycles
          IN /\ Len(cycle_history) = n
             /\ \A i \in 1 .. n : cycle_history[i].cycle_num = i)
    /\ [][\A i \in 1 .. Len(cycle_history) :
              /\ Len(cycle_history') >= i
              /\ cycle_history'[i] = cycle_history[i]]_vars

\* the history is full and the record step of cycle 52 has returned
C11_Witness ==
    /\ ctl = "check_simulation_done"
    /\ current_cycle = max_history_cycles + 2
    /\ Len(cycle_history) = max_history_cycles
    /\ cycle_history[1].cycle_num = 1

\* C12: at termination the numerator is 100 * total_cycles; the denominator is
\* 1 when no instruction completed and total_instructions otherwise.
C12_CPIFallback ==
    ctl = "exit" =>
        /\ metrics.cpi_numerator = 100 * metrics.total_cycles
        /\ metrics.cpi_denominator =
               (IF metrics.total_instructions = 0 THEN 1
                ELSE metrics.total_instructions)


\* bits [lo + n - 1 : lo] of a word held as a signed 32-bit integer
Bits(w, lo, n) == (w \div (2 ^ lo)) % (2 ^ n)

\* the operand table of the decoder contract
DecodeTable(w) ==
    LET op == Bits(w, 26, 6)
        rs == Bits(w, 21, 5)
        rt == Bits(w, 16, 5)
        rd == Bits(w, 11, 5)
        fn == Bits(w, 0, 6) IN
    CASE w = 0 -> <<-1, -1, -1>>
      [] w # 0 /\ op = 0 /\ fn = 8 -> <<rs, -1, -1>>
      [] w # 0 /\ op = 0 /\ fn = 9 -> <<rs, -1, rd>>
      [] w # 0 /\ op = 0 /\ fn \notin {8, 9} -> <<rs, rt, rd>>
      [] op \in 32 .. 37 -> <<rs, -1, rt>>
      [] op \in 40 .. 43 -> <<rs, rt, -1>>
      [] op \in 4 .. 7 -> <<rs, rt, -1>>
      [] op = 2 -> <<-1, -1, -1>>
      [] op = 3 -> <<-1, -1, 31>>
      [] OTHER -> <<rs, -1, rt>>

Operands(slot) == <<slot.src1, slot.src2, slot.dest>>

\* the slots that hold what process_ID_stage decoded
DecodedStages == {"ID", "EX", "MEM", "WB"}

\* C13: the operands decoded for any word are those of the table, each of them
\* -1 or a register number 0..31.
C13_DecoderTable ==
    \A s \in DecodedStages :
        stage[s].valid = 1 =>
            /\ Operands(stage[s]) = DecodeTable(stage[s].instr)
            /\ \A i \in 1 .. 3 : Operands(stage[s])[i] \in -1 .. 31

\* a jalr $ra,$t2 has just been decoded
C13_Witness ==
    /\ ctl = "process_IF_stage"
    /\ stage.ID.valid = 1
    /\ stage.ID.instr = RType(10, 0, 31, 9)
    /\ Operands(stage.ID) = <<10, -1, 31>>

\* the opcodes of the instruction classes the decoder names
NamedOpcodes == {0} \cup (2 .. 15) \cup (32 .. 37) \cup (40 .. 43)

UnknownWord(w) == Bits(w, 26, 6) \notin NamedOpcodes

\* C14 as stated: a word with an unknown opcode decodes to no operands.
C14_UnknownNoOperands ==
    \A s \in DecodedStages :
        (stage[s].valid = 1 /\ UnknownWord(stage[s].instr)) =>
            Operands(stage[s]) = <<-1, -1, -1>>

\* C14 (amended): decoding never fails, and a word with an unknown opcode is
\* decoded as an immediate-class instruction: src1 = rs, src2 = -1, dest = rt.
C14_UnknownAsImmediate ==
    \A s \in DecodedStages :
        (stage[s].valid = 1 /\ UnknownWord(stage[s].instr)) =>
            /\ stage[s].src1 = Bits(stage[s].instr, 21, 5)
            /\ stage[s].src2 = -1
            /\ stage[s].dest = Bits(stage[s].instr, 16, 5)

\* a word of opcode 63 with rs = $t2 and rt = $ra has just been decoded
C14_Witness ==
    /\ ctl = "process_IF_stage"
    /\ stage.ID.valid = 1
    /\ stage.ID.instr = IType(63, 10, 31, 0)
    /\ Operands(stage.ID) = <<10, -1, 31>>


Counters ==
    {"total_cycles", "total_instructions", "stall_cycles", "forward_count",
     "branch_stalls", "load_use_stalls", "raw_hazards"}

\* C15: no step decreases any of the seven metrics counters.
C15_CountersMonotonic ==
    [][\A f \in Counters : metrics'[f] >= metrics[f]]_vars

\* a run has ended with a stall, a forward and a hazard counted, and the
\* hazard counter has been through a second write
C15_Witness ==
    /\ ctl = "exit"
    /\ metrics.total_cycles >= 1
    /\ metrics.total_instructions >= 1
    /\ metrics.stall_cycles >= 1
    /\ metrics.forward_count >= 2
    /\ metrics.raw_hazards >= 1

\* operand r of the ID instruction is a register other than $zero whose
\* scoreboard entry is busy
Busy(r) == r > 0 /\ scoreboard[r] # 0

\* the valid ID instruction has an operand hazard (read before detection, or
\* at the report: detection changes neither the ID slot nor the scoreboard)
OperandHazard ==
    /\ stage.ID.valid = 1
    /\ (Busy(stage.ID.src1) \/ Busy(stage.ID.src2))

\* C16: the detection step of a cycle with an operand hazard adds exactly one
\* to the raw-hazard counter; no other step changes it.
C16_RawHazardCount ==
    [][metrics'.raw_hazards =
           metrics.raw_hazards
               + (IF ctl = "detect_hazards" /\ OperandHazard THEN 1 ELSE 0)]_vars

\* C17: with forwarding on, the report of a cycle whose ID instruction is not
\* a branch or jump and has an operand hazard that is not a load-use case is
\* detected, RAW, no stall, with a forward record from the stage producing a
\* hazardous operand to ID for that operand.
C17_ForwardedReport ==
    (/\ AtReport
     /\ enable_forwarding # 0
     /\ OperandHazard
     /\ ~LoadUseCase
     /\ is_branch_instruction(stage.ID.instr) = 0)
    => /\ hazard.hazard_detected = 1
       /\ hazard.hazard_type = HAZARD_RAW
       /\ hazard.stall_required = 0
       /\ hazard.forward_to = STAGE_ID
       /\ \E r \in {stage.ID.src1, stage.ID.src2} :
             /\ Busy(r)
             /\ hazard.forward_reg = r
             /\ hazard.forward_from = scoreboard[r]
             /\ hazard.forward_from \in {STAGE_EX, STAGE_MEM, STAGE_WB}


\* the word is branch/jump-class: opcodes 2..7, or opcode 0 with funct jr, jalr
BranchClass(w) ==
    \/ Bits(w, 26, 6) \in 2 .. 7
    \/ (Bits(w, 26, 6) = 0 /\ Bits(w, 0, 6) \in {8, 9})

BranchInID == stage.ID.valid = 1 /\ BranchClass(stage.ID.instr)

DataStall == OperandHazard /\ enable_forwarding = 0

ReportFields ==
    {"hazard_detected", "hazard_type", "stall_required", "forward_from",
     "forward_to", "forward_reg"}

\* the report detection gives for the present ID slot, EX slot, scoreboard and
\* flags when it starts from a blank report
FreshReport == detect_hazards([Machine EXCEPT !.hazard = ZeroHazard]).hazard

\* C20: after detection every field of the report is the one the cycle's ID
\* slot, EX slot, scoreboard and flags determine; none is left from an earlier
\* cycle.
C20_ReportRecomputed ==
    AtReport => \A f \in ReportFields : hazard[f] = FreshReport[f]


\* C21: the load-use test answers 'load' for the word in the EX slot exactly
\* when its opcode is one of the opcodes 32..37 that decode as load-class.
C21_LoadTestMatchesDecoder ==
    stage.EX.valid = 1 =>
        ((is_load_instruction(stage.EX.instr) = 1)
            <=> (Bits(stage.EX.instr, 26, 6) \in 32 .. 37))


\* both source operands of the valid ID instruction are -1 or register 0
ZeroOperands ==
    /\ stage.ID.valid = 1
    /\ stage.ID.src1 \in {-1, 0}
    /\ stage.ID.src2 \in {-1, 0}

\* C22: detection for an ID instruction whose source operands are each -1 or
\* register 0 counts no raw hazard, forwards nothing and sets no data stall,
\* whatever the scoreboard holds.
C22_ZeroNeverHazardous ==
    [][(ctl = "detect_hazards" /\ ZeroOperands)
          => /\ metrics'.raw_hazards = metrics.raw_hazards
             /\ metrics'.forward_count = metrics.forward_count
             /\ metrics'.load_use_stalls = metrics.load_use_stalls
             /\ hazard'.forward_from = 0
             /\ hazard'.hazard_type \notin {HAZARD_RAW, HAZARD_LOAD_USE}
             /\ (hazard'.stall_required = 1
                    => hazard'.hazard_type = HAZARD_CONTROL)]_vars

\* add $ra,$zero,$zero has been through detection while the scoreboard entry
\* of register 0 is busy
C22_Witness ==
    /\ AtReport
    /\ stage.ID.valid = 1
    /\ stage.ID.src1 = 0
    /\ stage.ID.src2 = 0
    /\ scoreboard[0] # 0
    /\ hazard.hazard_detected = 0
    /\ hazard.stall_required = 0


\* the step changes no scoreboard entry other than that of register r, and
\* that one only to v
ChangesOnly(r, v) ==
    \A q \in 0 .. NumRegs - 1 :
        scoreboard'[q] # scoreboard[q] => (q = r /\ scoreboard'[q] = v)

\* what C23 says of the Execute and Writeback steps and of the steps that are
\* none of the three stage steps in question
ExecuteMarks ==
    ctl = "process_EX_stage" =>
        /\ ChangesOnly(stage.ID.dest, STAGE_EX)
        /\ (hazard.stall_required = 0 /\ stage.ID.dest >= 0)
               => scoreboard'[stage.ID.dest] = STAGE_EX

WritebackClears ==
    ctl = "process_WB_stage" =>
        /\ ChangesOnly(stage.WB.dest, 0)
        /\ (stage.WB.valid = 1 /\ stage.WB.dest >= 0)
               => scoreboard'[stage.WB.dest] = 0

OtherStepsKeep ==
    ctl \in {"simulation_loop", "detect_hazards", "process_ID_stage",
             "process_IF_stage", "record_cycle_history",
             "check_simulation_done", "cycle_limit", "simulation_complete"}
        => scoreboard' = scoreboard

\* C23 as stated: the scoreboard changes only in the Execute step (dest of the
\* instruction entering EX set to 3) and in the Writeback step (dest of the
\* completing instruction cleared); the Memory step copies EX into MEM and
\* leaves the scoreboard as it is.
C23_ScoreboardTwoWriters ==
    [][/\ ExecuteMarks
       /\ WritebackClears
       /\ OtherStepsKeep
       /\ ctl = "process_MEM_stage"
              => (stage'.MEM = stage.EX /\ scoreboard' = scoreboard)]_vars

\* C23 (amended): the scoreboard changes in three places of a cycle: Execute
\* sets the dest entry of the instruction entering EX to 3, Memory copies the
\* EX slot into MEM and sets the dest entry of the copied slot to 4, and
\* Writeback clears the dest entry of the completing instruction.
C23_ScoreboardThreeWriters ==
    [][/\ ExecuteMarks
       /\ WritebackClears
       /\ OtherStepsKeep
       /\ ctl = "process_MEM_stage"
              => /\ stage'.MEM = stage.EX
                 /\ ChangesOnly(stage.EX.dest, STAGE_MEM)
                 /\ stage.EX.dest >= 0 => scoreboard'[stage.EX.dest] = STAGE_MEM]_vars

\* the Memory step has moved a valid instruction from EX and re-marked its
\* dest, a register other than $zero, from 3 to 4
C23_Witness ==
    /\ ctl = "detect_hazards"
    /\ stage.MEM.valid = 1
    /\ stage.MEM.dest > 0
    /\ stage.EX = stage.MEM
    /\ scoreboard[stage.MEM.dest] = STAGE_MEM


\* the slot is a bubble: not valid, word 0, no operands
IsBubble(slot) ==
    /\ slot.valid = 0
    /\ slot.instr = 0
    /\ Operands(slot) = <<-1, -1, -1>>

Stalled == hazard.stall_required # 0

C25_TerminationCondition ==
    /\ []((ctl \in {"simulation_complete", "exit"} /\ current_cycle < MAX_CYCLES)
             => Drained)
    /\ []((ctl \in {"simulation_complete", "exit"} /\ instruction_count = 0)
             => /\ current_cycle = 0
                /\ metrics.total_cycles = 0
                /\ cycle_history = << >>)
    /\ [][ctl = "simulation_loop" =>
              /\ (ctl' = "simulation_complete") <=> Drained
              /\ (ctl' = "process_WB_stage") <=> ~Drained]_vars

\* three instructions have completed, the pipeline has drained below the cap
\* and the run has ended
C25_Witness ==
    /\ ctl = "simulation_complete"
    /\ instruction_count = 3
    /\ metrics.total_instructions = 3
    /\ Drained
    /\ current_cycle < MAX_CYCLES

\* C26: with forwarding disabled, detection for a valid ID instruction with a
\* busy source operand reports stall_required = true and kind RAW, and apart
\* from the raw-hazard counter changes no counter: a stall forced by src1 ends
\* the detection, src2 is not evaluated.
C26_NoForwardingStalls ==
    [][(ctl = "detect_hazards" /\ enable_forwarding = 0 /\ OperandHazard)
          => /\ hazard'.hazard_detected = 1
             /\ hazard'.stall_required = 1
             /\ hazard'.hazard_type = HAZARD_RAW
             /\ hazard'.forward_from = 0
             /\ \A f \in Counters \ {"raw_hazards"} : metrics'[f] = metrics[f]
             /\ Busy(stage.ID.src1) => metrics'.raw_hazards = 1]_vars

\* forwarding off: an instruction whose src2 alone is busy has been through
\* detection
C26_Witness ==
    /\ AtReport
    /\ enable_forwarding = 0
    /\ stage.ID.valid = 1
    /\ ~Busy(stage.ID.src1)
    /\ Busy(stage.ID.src2)
    /\ hazard.stall_required = 1
    /\ hazard.hazard_type = HAZARD_RAW


\* the entry of the cycle just recorded
LastEntry == cycle_history[current_cycle]

\* C27: the entry recorded for cycle k <= 50 has cycle number k, the words of
\* the five slots at the end of the cycle, the kind and stall flag of the
\* cycle's report, and the forward flag set exactly when the report carries a
\* forward record.
C27_HistoryFidelity ==
    (ctl = "check_simulation_done" /\ current_cycle <= max_history_cycles)
    => /\ Len(cycle_history) = current_cycle
       /\ LastEntry.cycle_num = current_cycle
       /\ LastEntry.IF_instr = stage.IF.instr
       /\ LastEntry.ID_instr = stage.ID.instr
       /\ LastEntry.EX_instr = stage.EX.instr
       /\ LastEntry.MEM_instr = stage.MEM.instr
       /\ LastEntry.WB_instr = stage.WB.instr
       /\ LastEntry.hazard_type = hazard.hazard_type
       /\ LastEntry.stall = hazard.stall_required
       /\ (LastEntry.forward = 1) <=> (hazard.forward_from # 0)
       /\ LastEntry.forward \in {0, 1}

\* the entry of a cycle with a forward has been recorded, ID, EX and MEM
\* holding instruction words
C27_Witness ==
    /\ ctl = "check_simulation_done"
    /\ Len(cycle_history) = current_cycle
    /\ LastEntry.forward = 1
    /\ LastEntry.ID_instr # 0
    /\ LastEntry.EX_instr # 0
    /\ LastEntry.MEM_instr # 0
    /\ LastEntry.ID_instr # LastEntry.EX_instr

\* C28: when detection runs every scoreboard entry is 0 or MEM(4); no entry is
\* ever WB(5).
C28_DetectorSeesMemOnly ==
    /\ \A r \in 0 .. NumRegs - 1 : scoreboard[r] # STAGE_WB
    /\ ctl = "detect_hazards" =>
           \A r \in 0 .. NumRegs - 1 : scoreboard[r] \in {0, STAGE_MEM}

\* detection is about to run for an instruction whose src1 was marked EX in
\* the previous cycle and re-marked MEM by the Memory step
C28_Witness ==
    /\ ctl = "detect_hazards"
    /\ stage.ID.valid = 1
    /\ Busy(stage.ID.src1)
    /\ stage.MEM.valid = 1
    /\ stage.MEM.dest = stage.ID.src1
    /\ stage.MEM.pc = stage.ID.pc - 4
    /\ scoreboard[stage.ID.src1] = STAGE_MEM

\* C29: a run that ended drained has completed or stalled away every supplied
\* instruction: total_instructions + stall_cycles = instruction_count.
C29_CompletedPlusStalls ==
    (ctl = "exit" /\ Drained) =>
        metrics.total_instructions + metrics.stall_cycles = instruction_count


\* a drained run with a stall and a completion
C29_Witness ==
    /\ ctl = "exit"
    /\ Drained
    /\ instruction_count = 3
    /\ metrics.stall_cycles >= 1
    /\ metrics.total_instructions >= 1

\* C30: detection never reports a stall in the cycle after a stall; the Fetch
\* step of a cycle without a stall advances the fetch pointer while
\* instructions remain; and a program of n <= 100 instructions ends within
\* 2n + 5 cycles, below the cap.
C30_NoConsecutiveStalls ==
    /\ [][/\ (ctl = "detect_hazards" /\ Stalled) => hazard'.stall_required = 0
          /\ (ctl = "process_IF_stage" /\ ~Stalled
                  /\ pc_current < instruction_count)
                 => pc_current' = pc_current + 1]_vars
    /\ []((ctl = "exit" /\ instruction_count <= 100)
             => /\ metrics.total_cycles <= 2 * instruction_count + 5
                /\ metrics.total_cycles < MAX_CYCLES)

\* the program of CapFreeCount branches has ended, every one of them stalled
C30_Witness ==
    /\ ctl = "exit"
    /\ instruction_count = CapFreeCount
    /\ metrics.stall_cycles = instruction_count
    /\ metrics.total_cycles > instruction_count + 5


\* the slots from the oldest instruction to the youngest
PipeOrder == <<"WB", "MEM", "EX", "ID", "IF">>

\* no stage step of a cycle is under way: the slots are those one cycle left
\* and the next will find
BetweenCycles ==
    ctl \in {"process_WB_stage", "record_cycle_history", "check_simulation_done",
             "cycle_limit", "simulation_loop", "simulation_complete", "exit"}

C32_StallFreeLength ==
    (ctl = "exit" /\ instruction_count >= 1 /\ Drained
         /\ metrics.stall_cycles = 0)
    => /\ metrics.total_instructions = instruction_count
       /\ metrics.total_cycles = instruction_count + 5

\* a run of three instructions with a forward and no stall has ended
C32_Witness ==
    /\ ctl = "exit"
    /\ instruction_count = 3
    /\ Drained
    /\ metrics.stall_cycles = 0
    /\ metrics.forward_count >= 1
    /\ metrics.total_cycles = 8

=============================================================================
